---- MODULE Spec2Model ----
(***************************************************************************)
(* Model of the docker-build-push action: the entry point run() and the    *)
(* orchestrator docker() of src/src/index.ts, and the components it calls  *)
(* (ensureDockerEngine, registryLogin, checkImageExists, build, push).     *)
(*                                                                         *)
(* The repository holds two revisions of build (src/src/build.ts, the      *)
(* classic "docker build", and src/unnamed/part_003, "docker buildx build  *)
(* --push" with a pull of :latest) and two of push (src/src/push.ts, which *)
(* also publishes :latest, and src/unnamed/part_001, which does not).      *)
(* docker() calls build with six positional arguments and push with        *)
(* three; the variable link records which revision of each the run is      *)
(* linked with, and the call binds the arguments by position as the        *)
(* language does.                                                          *)
(*                                                                         *)
(* Strings are TLA+ strings, except the args input, which is a sequence of *)
(* one-character strings so that trim() and split(/\s+/) can be computed;  *)
(* Str turns such a sequence into a string.  The emoji that open the       *)
(* messages of the source are left out of the message strings.             *)
(***************************************************************************)
EXTENDS Integers, Sequences, FiniteSets, TLC

(***************************************************************************)
(* Bounds of the model.                                                    *)
(***************************************************************************)
\* Longest args string given to build() when it is called directly.
MaxArgsLen == 3
\* Number of runs made in succession against the same registry.
MaxRuns == 2

(***************************************************************************)
(* Sequences of characters and strings.                                    *)
(***************************************************************************)
Chars == {"a", "b", " "}

Range(s) == {s[i] : i \in 1..Len(s)}

CharSeqs(n) == UNION {[1..k -> Chars] : k \in 0..n}

RECURSIVE Str(_)
Str(cs) == IF cs = <<>> THEN "" ELSE Head(cs) \o Str(Tail(cs))

\* \s of the regular expression, over the characters of the model.
IsSpace(c) == c = " "

RECURSIVE TrimStart(_)
TrimStart(cs) ==
  IF cs # <<>> /\ IsSpace(Head(cs)) THEN TrimStart(Tail(cs)) ELSE cs

RECURSIVE TrimEnd(_)
TrimEnd(cs) ==
  IF cs # <<>> /\ IsSpace(cs[Len(cs)])
  THEN TrimEnd(SubSeq(cs, 1, Len(cs) - 1))
  ELSE cs

\* String.prototype.trim
Trim(cs) == TrimEnd(TrimStart(cs))

\* String.prototype.split(/\s+/): the pieces between the maximal runs of
\* whitespace; a string without whitespace (the empty string too) is one piece.
RECURSIVE SplitFrom(_, _)
SplitFrom(cs, cur) ==
  IF cs = <<>> THEN <<cur>>
  ELSE IF IsSpace(Head(cs))
       THEN <<cur>> \o SplitFrom(TrimStart(cs), <<>>)
       ELSE SplitFrom(Tail(cs), Append(cur, Head(cs)))

SplitWs(cs) == SplitFrom(cs, <<>>)

\* The strings of a sequence of character sequences.
Strs(toks) == [i \in 1..Len(toks) |-> Str(toks[i])]

(***************************************************************************)
(* Paths: a path is a sequence of segments; the empty sequence is the      *)
(* empty string.  Cwd is process.cwd().                                    *)
(***************************************************************************)
Cwd == <<"", "work">>

RECURSIVE JoinSegs(_)
JoinSegs(p) ==
  IF p = <<>> THEN ""
  ELSE IF Len(p) = 1 THEN p[1]
  ELSE p[1] \o "/" \o JoinSegs(Tail(p))

\* The text of a path.
PathStr(p) == JoinSegs(p)

IsAbsolute(p) == p # <<>> /\ p[1] = ""

\* path.join(a, b) for normalised relative segments.
join(a, b) == a \o b

\* path.resolve(p): p against the working directory.
resolve(p) == IF IsAbsolute(p) THEN p ELSE Cwd \o p

(***************************************************************************)
(* Values of the inputs.                                                   *)
(***************************************************************************)
ProjectPaths == {<<>>, <<"app">>}
ImageNames == {"", "app"}
Versions == {"", "v1", "v2"}
RegistryUrls == {"", "reg.example"}
Usernames == {"", "user"}
Passwords == {"", "s3cret"}
DockerfileNames == {<<"Dockerfile">>}
ArgsValues == CharSeqs(MaxArgsLen)
\* The args inputs of whole runs.
RunArgsValues == {<<>>, <<"a", " ", "b">>}

\* type Input of index.ts
Input ==
  [projectPath : ProjectPaths, imageName : ImageNames,
   dockerfileName : DockerfileNames, version : Versions,
   registryUrl : RegistryUrls, registryUsername : Usernames,
   registryPassword : Passwords, args : RunArgsValues, pullLatest : BOOLEAN]

\* Values of the language that a parameter may be bound to.  A string
\* value carries its text as a string (text), as path segments (segs) or as
\* characters (chars).
Undefined == [type |-> "undefined"]
JsText(s) == [type |-> "string", text |-> s]
JsPath(p) == [type |-> "string", segs |-> p]
JsString(cs) == [type |-> "string", chars |-> cs]
JsBoolean(b) == [type |-> "boolean", bool |-> b]

\* The text a value has inside a template literal.
ToText(v) ==
  IF v.type = "undefined" THEN "undefined"
  ELSE IF v.type = "boolean" THEN (IF v.bool THEN "true" ELSE "false")
  ELSE IF "text" \in DOMAIN v THEN v.text
  ELSE IF "segs" \in DOMAIN v THEN PathStr(v.segs)
  ELSE Str(v.chars)

\* if (v)
Truthy(v) ==
  IF v.type = "undefined" THEN FALSE
  ELSE IF v.type = "boolean" THEN v.bool
  ELSE ToText(v) # ""

\* The i-th argument of a call: undefined when the call gives fewer.
Arg(a, i) == IF i <= Len(a) THEN a[i] ELSE Undefined

\* A parameter with a default value: the default replaces undefined only.
WithDefault(v, d) == IF v = Undefined THEN d ELSE v

(***************************************************************************)
(* run(): the inputs.  For every input, core.getInput(name) (the step      *)
(* parameter: a string, '' when not given), then process.env.INPUT_NAME    *)
(* (a string, or undefined), then the default.                             *)
(***************************************************************************)
\* a || b
JsOr(a, b) == IF Truthy(a) THEN a ELSE b

ReadField_envFirst(param, env, default) == JsOr(JsOr(env, param), default)

\* core.getInput(name) || process.env.INPUT_NAME || default
ReadField(param, env, default) == JsOr(JsOr(param, env), default)

UpperCase == <<"A", "B", "C", "D", "E", "F", "G", "H", "I", "J", "K", "L", "M",
               "N", "O", "P", "Q", "R", "S", "T", "U", "V", "W", "X", "Y", "Z">>
LowerCase == <<"a", "b", "c", "d", "e", "f", "g", "h", "i", "j", "k", "l", "m",
               "n", "o", "p", "q", "r", "s", "t", "u", "v", "w", "x", "y", "z">>

\* One character of toLowerCase().
Lower(c) ==
  IF \E i \in DOMAIN UpperCase : UpperCase[i] = c
  THEN LowerCase[CHOOSE i \in DOMAIN UpperCase : UpperCase[i] = c]
  ELSE c

ToLowerCase_identity(cs) == cs

\* String.prototype.toLowerCase, on the characters of a string.
ToLowerCase(cs) == [i \in DOMAIN cs |-> Lower(cs[i])]

InputNames ==
  {"projectPath", "imageName", "dockerfileName", "version", "registryUrl",
   "registryUsername", "registryPassword", "args", "pullLatest"}

\* The default of each input, the last operand of its || chain.
InputDefault ==
  [projectPath |-> JsPath(<<>>), imageName |-> JsText(""),
   dockerfileName |-> JsPath(<<"Dockerfile">>), version |-> JsText(""),
   registryUrl |-> JsText(""), registryUsername |-> JsText(""),
   registryPassword |-> JsText(""), args |-> JsString(<<>>),
   pullLatest |-> JsString(<<"t", "r", "u", "e">>)]

\* The input record run() builds from the parameters and the environment.
ReadInput(r) ==
  LET v == [n \in InputNames |-> ReadField(r.param[n], r.env[n], InputDefault[n])]
  IN [projectPath |-> v.projectPath.segs,
      imageName |-> v.imageName.text,
      dockerfileName |-> v.dockerfileName.segs,
      version |-> v.version.text,
      registryUrl |-> v.registryUrl.text,
      registryUsername |-> v.registryUsername.text,
      registryPassword |-> v.registryPassword.text,
      args |-> v.args.chars,
      pullLatest |-> ToLowerCase(v.pullLatest.chars) = <<"t", "r", "u", "e">>]

\* The sources of an input record given by step parameters alone.
ParamsOf(i) ==
  [param |->
     [projectPath |-> JsPath(i.projectPath), imageName |-> JsText(i.imageName),
      dockerfileName |-> JsPath(i.dockerfileName), version |-> JsText(i.version),
      registryUrl |-> JsText(i.registryUrl),
      registryUsername |-> JsText(i.registryUsername),
      registryPassword |-> JsText(i.registryPassword),
      args |-> JsString(i.args),
      pullLatest |-> JsString(IF i.pullLatest THEN <<"t", "r", "u", "e">>
                              ELSE <<"f", "a", "l", "s", "e">>)],
   env |-> [n \in InputNames |-> Undefined]]

(***************************************************************************)
(* Outcomes of a subprocess: it ran to exit code 0 ("ok"), it exited       *)
(* non-zero ("nonzero"), or it could not be executed ("spawnError").       *)
(***************************************************************************)
Outcomes == {"ok", "nonzero", "spawnError"}

\* The text of the error exec.exec rejects with.
ExecErrorText(o) ==
  IF o = "nonzero"
  THEN "Error: The process 'docker' failed with exit code 1"
  ELSE "Error: There was an error when attempting to execute the process 'docker'"

NoResult == [none |-> TRUE]

(***************************************************************************)
(* Environments: functions from variable names to values.                  *)
(***************************************************************************)
EmptyEnv == [n \in {} |-> ""]

\* The values process.env may have.
ProcessEnvs ==
  {[n \in {"TOKEN"} |-> "old"],
   [n \in {"TOKEN", "GITHUB_OUTPUT"} |-> IF n = "TOKEN" THEN "old" ELSE "/out"]}

\* The values the env input of the action may have.
EnvInputs ==
  {EmptyEnv, [n \in {"TOKEN"} |-> "new"], [n \in {"EXTRA"} |-> "x"]}

VARIABLES
  link,        \* the revisions of build and push the run is linked with
  entry,       \* "run": run() is executed; "build": build() is called directly
  input,       \* the Input record of run()
  fs,          \* the paths that exist on the filesystem
  registry,    \* the references the registry holds
  images,      \* the image the registry holds under each reference
  other,       \* the run of a second runner, while this one is looked at
  localImages, \* the references of the local image cache
  pc,          \* position of the run
  frame,       \* the argument list of a direct call of build
  imageExists, \* what checkImageExists returned
  calls,       \* the subprocesses spawned in this run, in order
  log,         \* core.info / core.warning of this run, in order
  result,      \* the Output docker() returned, or NoResult
  outputs,     \* the output keys run() has set, with their values
  outputFile,  \* the lines run() has appended to the file GITHUB_OUTPUT names
  processEnv,  \* process.env
  outputNode,  \* what the file system has at the path GITHUB_OUTPUT names
  envInput,    \* the variables of the env input of the action
  raw,         \* what run() reads its inputs from: parameters and INPUT_* variables
  failure,     \* the message of core.setFailed (or of the error thrown), or ""
  runNo,       \* number of the run
  history      \* the ends of the earlier runs

vars == <<link, entry, input, fs, registry, images, other, localImages, pc, frame,
          imageExists, calls, log, result, outputs, outputFile, processEnv,
          outputNode, envInput, raw, failure, runNo, history>>

static == <<link, entry, input, fs, frame, processEnv, outputNode, envInput, raw,
            other>>

(***************************************************************************)
(* Images.  An image is named after the run that built it: the runner and  *)
(* the number of its run; Prior is an image the registry held before.      *)
(***************************************************************************)
Prior == [runner |-> 0, run |-> 0]

\* The runner whose run the variables pc, calls, ... describe.
Me == 3 - other.id

\* The image this run builds.
Image == [runner |-> Me, run |-> runNo]

\* A successful docker push of img as ref: the registry holds img under ref,
\* whatever it held before.
Publish(imgs, ref, img) ==
  [r \in DOMAIN imgs \cup {ref} |-> IF r = ref THEN img ELSE imgs[r]]

\* A run that has not started.
FreshRun(id) ==
  [id |-> id, pc |-> "start", imageExists |-> FALSE, calls |-> <<>>,
   log |-> <<>>, result |-> [none |-> TRUE], outputs |-> {}, outputFile |-> <<>>,
   failure |-> "", localImages |-> {}]

\* No second runner.
NoOther == [FreshRun(2) EXCEPT !.pc = "absent"]

(***************************************************************************)
(* References.                                                             *)
(***************************************************************************)
\* `${imageName}:${version}`
LocalRef(imageName, version) == imageName \o ":" \o version

\* `${registryUrl}/${imageName}:${version}`
RemoteRef(registryUrl, imageName, version) ==
  registryUrl \o "/" \o imageName \o ":" \o version

\* `${registryUrl}/${imageName}:latest`
LatestRef(registryUrl, imageName) == registryUrl \o "/" \o imageName \o ":latest"

Meta_hrefWithoutRegistry(inputs) ==
  [image |-> inputs.imageName,
   tag |-> inputs.version,
   href |-> LocalRef(inputs.imageName, inputs.version)]

\* meta of docker()
Meta(inputs) ==
  [image |-> inputs.imageName,
   tag |-> inputs.version,
   href |-> RemoteRef(inputs.registryUrl, inputs.imageName, inputs.version)]

\* { ...meta, skipped }
Output(inputs, skipped) ==
  [image |-> Meta(inputs).image, tag |-> Meta(inputs).tag,
   href |-> Meta(inputs).href, skipped |-> skipped]

\* The core.setOutput calls of run(): key and string value.
SetOutputs(r) ==
  {<<"image", r.image>>, <<"tag", r.tag>>, <<"href", r.href>>,
   <<"skipped", IF r.skipped THEN "true" ELSE "false">>}

(***************************************************************************)
(* run(): validation of the required inputs.                               *)
(***************************************************************************)
ValidationError_noPasswordCheck(i) ==
  IF i.projectPath = <<>> THEN "project-path is required"
  ELSE IF i.imageName = "" THEN "image-name is required"
  ELSE IF i.version = "" THEN "version is required"
  ELSE IF i.registryUrl = "" THEN "registry-url is required"
  ELSE IF i.registryUsername = "" THEN "registry-username is required"
  ELSE ""

\* The message of the first check that throws, "" when none does.
ValidationError(i) ==
  IF i.projectPath = <<>> THEN "project-path is required"
  ELSE IF i.imageName = "" THEN "image-name is required"
  ELSE IF i.version = "" THEN "version is required"
  ELSE IF i.registryUrl = "" THEN "registry-url is required"
  ELSE IF i.registryUsername = "" THEN "registry-username is required"
  ELSE IF i.registryPassword = "" THEN "registry-password is required"
  ELSE ""

DockerCatch_withoutText(msg) == "Docker push failed"

\* catch of docker()
DockerCatch(msg) == "Docker push failed: " \o msg

\* catch of run()
RunCatch(msg) == "Action failed: " \o msg

(***************************************************************************)
(* Argument lists of the subprocesses.                                     *)
(***************************************************************************)
EngineArgv == <<"docker", "--version">>

LoginArgv_passwordFlag(registryUrl, username, password) ==
  <<"docker", "login", registryUrl, "-u", username, "-p", password>>

LoginArgv(registryUrl, username, password) ==
  <<"docker", "login", registryUrl, "-u", username, "--password-stdin">>

\* options.input of the login
LoginInput(registryUrl, username, password) == password

ManifestArgv_latest(fullImageName) ==
  <<"docker", "manifest", "inspect", fullImageName \o ":latest">>

ManifestArgv(fullImageName) == <<"docker", "manifest", "inspect", fullImageName>>

ClassicBuildArgv(fullImageName, dockerfilePath, projectPath) ==
  <<"docker", "build", "-t", fullImageName, "-f", dockerfilePath, projectPath>>

PullArgv(ref) == <<"docker", "pull", ref>>

\* ...args.trim().split(/\s+/)
ExtraTokens(cs) == Strs(SplitWs(Trim(cs)))

BuildxArgv(target, dockerfilePath, projectPath, extra) ==
  <<"docker", "buildx", "build", "-t", target, "-f", dockerfilePath, projectPath>>
    \o extra \o <<"--push">>

TagArgv(localImageName, target) == <<"docker", "tag", localImageName, target>>

PushArgv(target) == <<"docker", "push", target>>

\* Exit code of a subprocess other than the manifest query (-1: none, the
\* process was not executed).
ExitCode(o) == IF o = "ok" THEN 0 ELSE IF o = "nonzero" THEN 1 ELSE -1

Spawned(argv, stdin, o) ==
  [argv |-> argv, stdin |-> stdin, outcome |-> o, exitCode |-> ExitCode(o)]

\* A subprocess spawned with options.env.
SpawnedWithEnv(argv, stdin, o, env) ==
  [argv |-> argv, stdin |-> stdin, outcome |-> o, exitCode |-> ExitCode(o),
   env |-> env]

Info(msg) == [level |-> "info", msg |-> msg]
Warning(msg) == [level |-> "warning", msg |-> msg]

(***************************************************************************)
(* The container engine and the registry, as the subprocess sees them.     *)
(***************************************************************************)
\* Exit code of "docker manifest inspect": 0 when the command ran and the
\* registry holds the reference.
ManifestExitCode(o, ref) ==
  IF o = "spawnError" THEN -1
  ELSE IF o = "ok" /\ ref \in registry THEN 0 ELSE 1

\* A pull can succeed only for a reference the registry holds.
PullOutcomes(ref) == IF ref \in registry THEN Outcomes ELSE Outcomes \ {"ok"}

\* A tag or a push can succeed only for a reference of the local cache.
LocalOutcomes(ref) == IF ref \in localImages THEN Outcomes ELSE Outcomes \ {"ok"}

existsSync_always(p) == TRUE

\* fs.existsSync
existsSync(p) == resolve(p) \in fs

(***************************************************************************)
(* Throwing and returning, for a run and for a direct call.                *)
(***************************************************************************)
\* An error thrown inside the try of docker().
Raise(msg) ==
  IF entry = "run"
  THEN pc' = "failed" /\ failure' = RunCatch(DockerCatch(msg))
  ELSE pc' = "threw" /\ failure' = msg

Return(next) == pc' = IF entry = "run" THEN next ELSE "returned"

\* The lines run() appends to the file of GITHUB_OUTPUT.
OutputLines(r) ==
  <<"image=" \o r.image, "tag=" \o r.tag, "href=" \o r.href,
    "skipped=" \o (IF r.skipped THEN "true" ELSE "false")>>

\* if (process.env.GITHUB_OUTPUT)
HasOutputFile == "GITHUB_OUTPUT" \in DOMAIN processEnv /\ processEnv["GITHUB_OUTPUT"] # ""

\* What the path of GITHUB_OUTPUT may be: a file that can be appended to
\* (or created), a directory, or a path whose directory does not exist.
OutputNodes == {"file", "directory", "noParent"}

\* The message of the error fs.appendFileSync throws for the path, "" when
\* it appends.
AppendError(path) ==
  CASE outputNode = "directory" ->
         "EISDIR: illegal operation on a directory, open '" \o path \o "'"
    [] outputNode = "noParent" ->
         "ENOENT: no such file or directory, open '" \o path \o "'"
    [] OTHER -> ""

\* The first fs.appendFileSync of run() throws.
AppendThrows == HasOutputFile /\ AppendError(processEnv["GITHUB_OUTPUT"]) # ""

\* The return of docker() with skipped, and what run() does then: it sets the
\* outputs and appends them to the file of GITHUB_OUTPUT; an error of the
\* append is caught by the catch of run().
Finish(skipped) ==
  /\ result' = Output(input, skipped)
  /\ outputs' = SetOutputs(Output(input, skipped))
  /\ IF AppendThrows
     THEN /\ outputFile' = outputFile
          /\ pc' = "failed"
          /\ failure' = RunCatch(AppendError(processEnv["GITHUB_OUTPUT"]))
     ELSE /\ outputFile' = IF HasOutputFile
                           THEN outputFile \o OutputLines(Output(input, skipped))
                           ELSE outputFile
          /\ pc' = "done"
          /\ failure' = failure

(***************************************************************************)
(* run(), up to the call of docker().                                      *)
(***************************************************************************)
run ==
  /\ pc = "start"
  /\ entry = "run"
  /\ IF ValidationError(input) # ""
     THEN pc' = "failed" /\ failure' = RunCatch(ValidationError(input))
     ELSE pc' = "engine" /\ UNCHANGED failure
  /\ UNCHANGED <<static, registry, images, localImages, imageExists, calls, log,
                 result, outputs, outputFile, runNo, history>>

EngineError(o) ==
  "Docker is not available. Please ensure Docker is installed and running. Error: "
    \o ExecErrorText(o)

EngineFailed_continues(o) ==
  /\ log' = Append(log, Warning(EngineError(o)))
  /\ pc' = "login"
  /\ UNCHANGED failure

\* catch of ensureDockerEngine: the error is thrown on.
EngineFailed(o) ==
  /\ Raise(EngineError(o))
  /\ UNCHANGED log

ensureDockerEngine ==
  /\ pc = "engine"
  /\ \E o \in Outcomes :
       /\ calls' = Append(calls, Spawned(EngineArgv, "", o))
       /\ IF o = "ok"
          THEN /\ log' = Append(log, Info("Docker engine is available and ready"))
               /\ pc' = "login"
               /\ UNCHANGED failure
          ELSE EngineFailed(o)
  /\ UNCHANGED <<static, registry, images, localImages, imageExists, result, outputs, outputFile,
                 runNo, history>>

LoginError(o) == "Failed to login to registry: " \o ExecErrorText(o)

LoginFailed_continues(o) ==
  /\ log' = Append(log, Warning(LoginError(o)))
  /\ pc' = "probe"
  /\ UNCHANGED failure

LoginFailed_retries(o) ==
  /\ pc' = "login"
  /\ UNCHANGED <<failure, log>>

\* catch of registryLogin: the error is thrown on.
LoginFailed(o) ==
  /\ Raise(LoginError(o))
  /\ UNCHANGED log

registryLogin ==
  /\ pc = "login"
  /\ \E o \in Outcomes :
       /\ calls' = Append(calls,
            Spawned(LoginArgv(input.registryUrl, input.registryUsername,
                              input.registryPassword),
                    LoginInput(input.registryUrl, input.registryUsername,
                               input.registryPassword), o))
       /\ IF o = "ok"
          THEN /\ log' = Append(log,
                    Info("Successfully logged into registry: " \o input.registryUrl))
               /\ pc' = "probe"
               /\ UNCHANGED failure
          ELSE LoginFailed(o)
  /\ UNCHANGED <<static, registry, images, localImages, imageExists, result, outputs, outputFile,
                 runNo, history>>

Exists_anyExit(exitCode) == TRUE

\* exists of checkImageExists: the exit code is 0.
Exists(exitCode) == exitCode = 0

\* What checkImageExists returns for an outcome of the manifest query.
ProbeResult_trueOnError(o, ref) ==
  IF o = "spawnError" THEN TRUE ELSE Exists(ManifestExitCode(o, ref))

ProbeResult(o, ref) ==
  IF o = "spawnError" THEN FALSE ELSE Exists(ManifestExitCode(o, ref))

\* What checkImageExists logs.
ProbeLog(o, ref) ==
  IF o = "spawnError"
  THEN Info("Error checking image existence: " \o ExecErrorText(o))
  ELSE Info("Image " \o ref \o " "
            \o (IF ProbeResult(o, ref) THEN "exists" ELSE "does not exist"))

checkImageExists ==
  /\ pc = "probe"
  /\ \E o \in Outcomes :
       LET fullImageName ==
             RemoteRef(input.registryUrl, input.imageName, input.version)
       IN /\ calls' = Append(calls,
               [Spawned(ManifestArgv(fullImageName), "", o)
                  EXCEPT !.exitCode = ManifestExitCode(o, fullImageName)])
          /\ log' = Append(log, ProbeLog(o, fullImageName))
          /\ imageExists' = ProbeResult(o, fullImageName)
          /\ pc' = "probed"
  /\ UNCHANGED <<static, registry, images, localImages, result, outputs, outputFile, failure,
                 runNo, history>>

docker_skip_publishesLatest ==
  /\ pc = "probed"
  /\ imageExists
  /\ log' = Append(log, Info("Image already exists, skipping build and push"))
  /\ Finish(TRUE)
  /\ registry' = registry \cup {LatestRef(input.registryUrl, input.imageName)}
  /\ UNCHANGED <<static, images, localImages, imageExists, calls, runNo, history>>

\* The branch of docker() taken when the image exists.
docker_skip ==
  /\ pc = "probed"
  /\ imageExists
  /\ log' = Append(log, Info("Image already exists, skipping build and push"))
  /\ Finish(TRUE)
  /\ UNCHANGED <<static, registry, images, localImages, imageExists, calls, runNo,
                 history>>

(***************************************************************************)
(* The call of build.  docker() gives six arguments; build of build.ts     *)
(* has four parameters, build of part_003 has seven, the last two with     *)
(* defaults.                                                               *)
(***************************************************************************)
\* The argument list of build(...) in docker().
DockerBuildArgs(inputs) ==
  <<JsPath(inputs.projectPath), JsPath(inputs.dockerfileName),
    JsText(inputs.imageName), JsText(inputs.version),
    JsString(inputs.args), JsBoolean(inputs.pullLatest)>>

\* The argument list of the call in progress.
BuildArgs == IF entry = "run" THEN DockerBuildArgs(input) ELSE frame

\* Parameters of build (build.ts).
ClassicParams(a) ==
  [projectPath |-> Arg(a, 1), dockerfileName |-> Arg(a, 2),
   imageName |-> Arg(a, 3), version |-> Arg(a, 4)]

\* Parameters of build (part_003).
BuildxParams(a) ==
  [projectPath |-> Arg(a, 1), dockerfileName |-> Arg(a, 2),
   imageName |-> Arg(a, 3), version |-> Arg(a, 4),
   registryUrl |-> Arg(a, 5),
   args |-> WithDefault(Arg(a, 6), JsString(<<>>)),
   pullLatest |-> WithDefault(Arg(a, 7), JsBoolean(TRUE))]

\* catch of build
BuildError(text) == "Failed to build: " \o text

DockerfileNotFound(dockerfilePath) ==
  "Error: Dockerfile not found at: " \o PathStr(dockerfilePath)

BuildEnabled_ignoresProbe ==
  \/ entry = "run" /\ pc = "probed"
  \/ entry = "build" /\ pc = "call"

BuildEnabled_withoutProbe ==
  \/ entry = "run" /\ pc \in {"probe", "probed"} /\ ~imageExists
  \/ entry = "build" /\ pc = "call"

BuildEnabled_unlessPublished ==
  \/ /\ entry = "run"
     /\ pc = "probed"
     /\ ~imageExists
     /\ RemoteRef(input.registryUrl, input.imageName, input.version) \notin registry
  \/ entry = "build" /\ pc = "call"

\* build is called: by docker() when the image does not exist, or directly.
BuildEnabled ==
  \/ entry = "run" /\ pc = "probed" /\ ~imageExists
  \/ entry = "build" /\ pc = "call"

\* Dockerfile path of build (build.ts).
ClassicDockerfilePath(p) == join(p.projectPath.segs, p.dockerfileName.segs)

BuildFailed_continues(o) ==
  /\ Return("push")
  /\ UNCHANGED <<failure, log, localImages>>

\* catch of build (build.ts) for a rejected build invocation.
BuildFailed(o) ==
  /\ Raise(BuildError(ExecErrorText(o)))
  /\ UNCHANGED <<log, localImages>>

\* build of src/src/build.ts
build ==
  /\ BuildEnabled
  /\ link.build = "build.ts"
  /\ LET p == ClassicParams(BuildArgs)
         dockerfilePath == ClassicDockerfilePath(p)
         fullImageName == LocalRef(ToText(p.imageName), ToText(p.version))
     IN IF ~existsSync(dockerfilePath)
        THEN /\ Raise(BuildError(DockerfileNotFound(dockerfilePath)))
             /\ UNCHANGED <<calls, log, localImages>>
        ELSE \E o \in Outcomes :
               /\ calls' = Append(calls,
                    Spawned(ClassicBuildArgv(fullImageName, PathStr(dockerfilePath),
                                             ToText(p.projectPath)), "", o))
               /\ IF o = "ok"
                  THEN /\ localImages' = localImages \cup {fullImageName}
                       /\ log' = Append(log, Info("Successfully built: " \o fullImageName))
                       /\ Return("push")
                       /\ UNCHANGED failure
                  ELSE BuildFailed(o)
  /\ UNCHANGED <<static, registry, images, imageExists, result, outputs, outputFile, runNo, history>>

\* Dockerfile path of build (part_003).
BuildxDockerfilePath(p) == resolve(p.dockerfileName.segs)

\* if (pullLatest) of build (part_003)
PullWanted(p) == Truthy(p.pullLatest)

\* The reference build (part_003) pulls.
PullRef(p) == LatestRef(ToText(p.registryUrl), ToText(p.imageName))

\* catch of the pull of :latest: a warning, and build goes on.
PullFailed(o, ref) ==
  /\ log' = Append(log, Warning("Failed to pull " \o ref \o ": " \o ExecErrorText(o)))
  /\ pc' = "buildx"
  /\ UNCHANGED failure

\* build of part_003, up to the end of the pull of :latest
build_pullLatest ==
  /\ BuildEnabled
  /\ link.build = "part_003"
  /\ LET p == BuildxParams(BuildArgs)
         dockerfilePath == BuildxDockerfilePath(p)
     IN IF ~existsSync(dockerfilePath)
        THEN /\ Raise(BuildError(DockerfileNotFound(dockerfilePath)))
             /\ UNCHANGED <<calls, log, localImages>>
        ELSE IF PullWanted(p)
        THEN \E o \in PullOutcomes(PullRef(p)) :
               /\ calls' = Append(calls, Spawned(PullArgv(PullRef(p)), "", o))
               /\ IF o = "ok"
                  THEN /\ localImages' = localImages \cup {PullRef(p)}
                       /\ pc' = "buildx"
                       /\ UNCHANGED <<log, failure>>
                  ELSE /\ PullFailed(o, PullRef(p))
                       /\ UNCHANGED localImages
        ELSE /\ pc' = "buildx"
             /\ UNCHANGED <<calls, log, localImages, failure>>
  /\ UNCHANGED <<static, registry, images, imageExists, result, outputs, outputFile, runNo, history>>

\* options.env of the build invocation: the entries of process.env (all of
\* them are defined).
BuildEnv(penv) == [n \in DOMAIN penv |-> penv[n]]

\* The tag build (part_003) gives the image.
BuildxTarget(p) ==
  ToText(p.registryUrl) \o "/" \o LocalRef(ToText(p.imageName), ToText(p.version))

\* build of part_003, from the build invocation on
build_buildx ==
  /\ pc = "buildx"
  /\ LET p == BuildxParams(BuildArgs)
         fullImageName == LocalRef(ToText(p.imageName), ToText(p.version))
     IN IF p.args.type # "string"
        THEN /\ Raise(BuildError("TypeError: args.trim is not a function"))
             /\ UNCHANGED <<calls, log, registry, images>>
        ELSE \E o \in Outcomes :
               /\ calls' = Append(calls,
                    SpawnedWithEnv(BuildxArgv(BuildxTarget(p),
                                              PathStr(BuildxDockerfilePath(p)),
                                              ToText(p.projectPath),
                                              ExtraTokens(p.args.chars)),
                                   "", o, BuildEnv(processEnv)))
               /\ IF o = "ok"
                  THEN /\ registry' = registry \cup {BuildxTarget(p)}
                       /\ images' = Publish(images, BuildxTarget(p), Image)
                       /\ log' = Append(log, Info("Successfully built: " \o fullImageName))
                       /\ Return("push")
                       /\ UNCHANGED failure
                  ELSE /\ Raise(BuildError(ExecErrorText(o)))
                       /\ UNCHANGED <<log, registry, images>>
  /\ UNCHANGED <<static, localImages, imageExists, result, outputs, outputFile, runNo, history>>

(***************************************************************************)
(* push(registryUrl, imageName, version), called by docker().              *)
(***************************************************************************)
localImageName == LocalRef(input.imageName, input.version)

remoteImageName_withoutRegistry == LocalRef(input.imageName, input.version)

remoteImageName == RemoteRef(input.registryUrl, input.imageName, input.version)
latestImageName == LatestRef(input.registryUrl, input.imageName)

\* catch of push: the message names remoteImageName.
PushError(text) == "Failed to push " \o remoteImageName \o ": " \o text

\* docker tag of `target`, one step of push
PushTagStep(target, next) ==
  \E o \in LocalOutcomes(localImageName) :
    /\ calls' = Append(calls, Spawned(TagArgv(localImageName, target), "", o))
    /\ IF o = "ok"
       THEN /\ localImages' = localImages \cup {target}
            /\ pc' = next
            /\ UNCHANGED failure
       ELSE /\ Raise(PushError(ExecErrorText(o)))
            /\ UNCHANGED localImages

push_tag ==
  /\ pc = "push"
  /\ PushTagStep(remoteImageName, "pushVersion")
  /\ UNCHANGED <<static, registry, images, imageExists, log, result, outputs, outputFile, runNo, history>>

PublishesLatest_never == FALSE

\* Whether push goes on to publish :latest (push.ts) or returns (part_001).
PublishesLatest == link.push = "push.ts"

push_push ==
  /\ pc = "pushVersion"
  /\ \E o \in LocalOutcomes(remoteImageName) :
       /\ calls' = Append(calls, Spawned(PushArgv(remoteImageName), "", o))
       /\ IF o = "ok"
          THEN /\ registry' = registry \cup {remoteImageName}
               /\ images' = Publish(images, remoteImageName, Image)
               /\ IF PublishesLatest
                  THEN /\ log' = Append(log, Info("Successfully pushed: " \o remoteImageName))
                       /\ pc' = "tagLatest"
                       /\ UNCHANGED <<result, outputs, outputFile, failure>>
                  ELSE /\ log' = log \o
                            <<Info("Successfully pushed: " \o remoteImageName),
                              Info("Docker push process completed successfully")>>
                       /\ Finish(FALSE)
          ELSE /\ Raise(PushError(ExecErrorText(o)))
               /\ UNCHANGED <<registry, images, log, result, outputs, outputFile>>
  /\ UNCHANGED <<static, localImages, imageExists, runNo, history>>

push_tagLatest ==
  /\ pc = "tagLatest"
  /\ PushTagStep(latestImageName, "pushLatest")
  /\ UNCHANGED <<static, registry, images, imageExists, log, result, outputs, outputFile, runNo, history>>

push_pushLatest ==
  /\ pc = "pushLatest"
  /\ \E o \in LocalOutcomes(latestImageName) :
       /\ calls' = Append(calls, Spawned(PushArgv(latestImageName), "", o))
       /\ IF o = "ok"
          THEN /\ registry' = registry \cup {latestImageName}
               /\ images' = Publish(images, latestImageName, Image)
               /\ log' = log \o
                    <<Info("Successfully pushed as latest: " \o latestImageName),
                      Info("Docker push process completed successfully")>>
               /\ Finish(FALSE)
          ELSE /\ Raise(PushError(ExecErrorText(o)))
               /\ UNCHANGED <<registry, images, log, result, outputs, outputFile>>
  /\ UNCHANGED <<static, localImages, imageExists, runNo, history>>

(***************************************************************************)
(* The next invocation of the action, with the same inputs, against the    *)
(* registry and the local cache the earlier runs left.                     *)
(***************************************************************************)
Ended == [end |-> pc, result |-> result]

nextRun ==
  /\ entry = "run"
  /\ pc \in {"done", "failed"}
  /\ runNo < MaxRuns
  /\ history' = Append(history, Ended)
  /\ runNo' = runNo + 1
  /\ pc' = "start"
  /\ calls' = <<>>
  /\ log' = <<>>
  /\ result' = NoResult
  /\ outputs' = {}
  /\ outputFile' = <<>>
  /\ failure' = ""
  /\ imageExists' = FALSE
  /\ UNCHANGED <<static, registry, images, localImages>>

(***************************************************************************)
(* Specification of whole runs.                                            *)
(***************************************************************************)
BuildRevisions == {"build.ts", "part_003"}
PushRevisions == {"push.ts", "part_001"}

\* The Dockerfile paths a run may look for.
FsPaths == {resolve(join(pp, df)) : pp \in ProjectPaths, df \in DockerfileNames}

InitCommon ==
  /\ localImages = {}
  /\ imageExists = FALSE
  /\ calls = <<>>
  /\ log = <<>>
  /\ result = NoResult
  /\ outputs = {}
  /\ outputFile = <<>>
  /\ failure = ""
  /\ runNo = 1
  /\ history = <<>>

Init ==
  /\ entry = "run"
  /\ link \in [build : BuildRevisions, push : PushRevisions]
  /\ raw \in {ParamsOf(i) : i \in Input}
  /\ input = ReadInput(raw)
  /\ fs \in SUBSET FsPaths
  /\ registry \in SUBSET {RemoteRef(input.registryUrl, input.imageName, input.version),
                          LatestRef(input.registryUrl, input.imageName)}
  /\ images = [r \in registry |-> Prior]
  /\ other = NoOther
  /\ frame = <<>>
  /\ processEnv \in ProcessEnvs
  /\ outputNode \in IF HasOutputFile THEN OutputNodes ELSE {"file"}
  /\ envInput = [n \in {"TOKEN"} |-> "new"]
  /\ pc = "start"
  /\ InitCommon

Next ==
  \/ run
  \/ ensureDockerEngine
  \/ registryLogin
  \/ checkImageExists
  \/ docker_skip
  \/ build
  \/ build_pullLatest
  \/ build_buildx
  \/ push_tag
  \/ push_push
  \/ push_tagLatest
  \/ push_pushLatest
  \/ nextRun

Spec == Init /\ [][Next]_vars

\* Whole runs that start from a registry without the image and its alias.
InitFresh == Init /\ registry = {}

SpecFresh == InitFresh /\ [][Next]_vars

(***************************************************************************)
(* Specification of the reading of the inputs by run(), up to validation.  *)
(***************************************************************************)
\* The text of a source of input n: '' stays '', any other text is marked
\* with the name of the input.
Marked(n, t) == IF t = "" THEN "" ELSE n \o "=" \o t

ParamTexts == {"", "param"}
EnvTexts == {"", "env"}

\* What the step parameter and the INPUT_* variable of pull-latest hold.
PullLatestParams ==
  {<<>>, <<"t", "r", "u", "e">>, <<"T", "R", "U", "E">>, <<"t", "R", "u", "E">>,
   <<"f", "a", "l", "s", "e">>, <<"y", "e", "s">>}
PullLatestEnvs ==
  {<<>>, <<"f", "a", "l", "s", "e">>, <<"T", "r", "u", "e">>,
   <<" ", "t", "r", "u", "e">>}

\* A source of the environment: the variable is not set, or holds a value.
EnvOf(values) == {Undefined} \cup values

RawInputs ==
  {[param |->
      [projectPath |-> JsPath(pp), imageName |-> JsText(Marked("image", pt)),
       dockerfileName |-> JsPath(dp), version |-> JsText(Marked("version", pt)),
       registryUrl |-> JsText(Marked("url", pt)),
       registryUsername |-> JsText(Marked("user", pt)),
       registryPassword |-> JsText(Marked("password", pt)),
       args |-> JsString(ap), pullLatest |-> JsString(lp)],
    env |->
      [projectPath |-> pe,
       imageName |-> IF te = "unset" THEN Undefined ELSE JsText(Marked("IMAGE", te)),
       dockerfileName |-> de,
       version |-> IF te = "unset" THEN Undefined ELSE JsText(Marked("VERSION", te)),
       registryUrl |-> IF te = "unset" THEN Undefined ELSE JsText(Marked("URL", te)),
       registryUsername |->
         IF te = "unset" THEN Undefined ELSE JsText(Marked("USER", te)),
       registryPassword |->
         IF te = "unset" THEN Undefined ELSE JsText(Marked("PASSWORD", te)),
       args |-> ae, pullLatest |-> le]] :
     pp \in {<<>>, <<"app">>},
     pe \in EnvOf({JsPath(<<>>), JsPath(<<"envapp">>)}),
     pt \in ParamTexts,
     te \in {"unset"} \cup EnvTexts,
     dp \in {<<>>, <<"Dockerfile.api">>},
     de \in EnvOf({JsPath(<<"Dockerfile.env">>)}),
     ap \in {<<>>, <<"a">>},
     ae \in EnvOf({JsString(<<"b", " ", "a">>)}),
     lp \in PullLatestParams,
     le \in EnvOf({JsString(cs) : cs \in PullLatestEnvs})}

\* The input record before run() has read the inputs.
EmptyInput ==
  [projectPath |-> <<>>, imageName |-> "", dockerfileName |-> <<>>,
   version |-> "", registryUrl |-> "", registryUsername |-> "",
   registryPassword |-> "", args |-> <<>>, pullLatest |-> FALSE]

\* run(): const input = {...}
readInput ==
  /\ entry = "run"
  /\ pc = "input"
  /\ input' = ReadInput(raw)
  /\ pc' = "start"
  /\ UNCHANGED <<link, entry, fs, frame, processEnv, outputNode, envInput, raw,
                 other, registry, images,
                 localImages, imageExists, calls, log, result, outputs,
                 outputFile, failure, runNo, history>>

InitInput ==
  /\ entry = "run"
  /\ link = [build |-> "build.ts", push |-> "push.ts"]
  /\ raw \in RawInputs
  /\ input = EmptyInput
  /\ fs = {}
  /\ registry = {}
  /\ images = [r \in registry |-> Prior]
  /\ other = NoOther
  /\ frame = <<>>
  /\ processEnv = [n \in {"TOKEN"} |-> "old"]
  /\ outputNode = "file"
  /\ envInput = EmptyEnv
  /\ pc = "input"
  /\ InitCommon

NextInput ==
  \/ readInput
  \/ run

\* Stops at the call of docker().
SpecInput == InitInput /\ [][NextInput]_vars

(***************************************************************************)
(* Specification of two runs of run() with the same inputs, each on a      *)
(* runner of its own (its own engine and local images), against one        *)
(* registry.  The variables of a run describe the run that takes the next  *)
(* step; `other` keeps the run of the second runner meanwhile.             *)
(***************************************************************************)
\* The next step is taken by the run of the second runner.
switch ==
  /\ entry = "run"
  /\ other.pc # "absent"
  /\ other' = [id |-> Me, pc |-> pc, imageExists |-> imageExists, calls |-> calls,
               log |-> log, result |-> result, outputs |-> outputs,
               outputFile |-> outputFile, failure |-> failure,
               localImages |-> localImages]
  /\ pc' = other.pc
  /\ imageExists' = other.imageExists
  /\ calls' = other.calls
  /\ log' = other.log
  /\ result' = other.result
  /\ outputs' = other.outputs
  /\ outputFile' = other.outputFile
  /\ failure' = other.failure
  /\ localImages' = other.localImages
  /\ UNCHANGED <<link, entry, input, fs, frame, processEnv, outputNode, envInput,
                 raw, registry, images, runNo, history>>

InitRace ==
  /\ entry = "run"
  /\ link \in [build : {"build.ts"}, push : PushRevisions]
  /\ raw = ParamsOf(CHOOSE i \in Input :
                      ValidationError(i) = "" /\ i.args = <<>> /\ i.pullLatest)
  /\ input = ReadInput(raw)
  /\ fs = {resolve(join(input.projectPath, input.dockerfileName))}
  /\ registry = {}
  /\ images = [r \in registry |-> Prior]
  /\ other = FreshRun(2)
  /\ frame = <<>>
  /\ processEnv = [n \in {"TOKEN"} |-> "old"]
  /\ outputNode = "file"
  /\ envInput = EmptyEnv
  /\ pc = "start"
  /\ InitCommon

NextRace ==
  \/ run
  \/ ensureDockerEngine
  \/ registryLogin
  \/ checkImageExists
  \/ docker_skip
  \/ build
  \/ push_tag
  \/ push_push
  \/ push_tagLatest
  \/ push_pushLatest
  \/ switch

SpecRace == InitRace /\ [][NextRace]_vars

(***************************************************************************)
(* Specification of build (part_003) called with its own seven parameters. *)
(***************************************************************************)
\* The argument lists of the direct calls.
BuildCalls ==
  {<<JsPath(<<"app">>), JsPath(df), JsText("app"), JsText("v1"),
     JsText("reg.example"), a, pl>> :
     df \in DockerfileNames,
     a \in {Undefined} \cup {JsString(cs) : cs \in ArgsValues},
     pl \in {Undefined, JsBoolean(TRUE), JsBoolean(FALSE)}}

InitBuild ==
  /\ entry = "build"
  /\ link = [build |-> "part_003", push |-> "push.ts"]
  /\ input = CHOOSE i \in Input : ValidationError(i) = "" /\ i.args = <<>> /\ i.pullLatest
  /\ raw = ParamsOf(input)
  /\ frame \in BuildCalls
  /\ processEnv \in ProcessEnvs
  /\ outputNode = "file"
  /\ envInput \in EnvInputs
  /\ fs \in SUBSET FsPaths
  /\ registry \in SUBSET {LatestRef("reg.example", "app")}
  /\ images = [r \in registry |-> Prior]
  /\ other = NoOther
  /\ pc = "call"
  /\ InitCommon

NextBuild ==
  \/ build_pullLatest
  \/ build_buildx

SpecBuild == InitBuild /\ [][NextBuild]_vars

(***************************************************************************)
(* Properties.                                                             *)
(***************************************************************************)
\* The docker subcommand of a spawned subprocess.
Cmd(c) == c.argv[2]

\* Whether this run has spawned a subprocess of one of the subcommands.
Spawns(cmds) == \E i \in 1..Len(calls) : Cmd(calls[i]) \in cmds

BuildAndPushCmds == {"pull", "build", "buildx", "tag", "push"}

\* The request passes the validation of run().
ValidRequest ==
  /\ input.projectPath # <<>>
  /\ input.imageName # ""
  /\ input.version # ""
  /\ input.registryUrl # ""
  /\ input.registryUsername # ""
  /\ input.registryPassword # ""

\* The fully-qualified reference of the request, written out.
RequestHref == input.registryUrl \o "/" \o input.imageName \o ":" \o input.version

\* C1: for a valid request whose existence probe returned true, the run
\* spawns no pull, build, tag or push subprocess, goes nowhere but to the
\* return of docker(), and the result docker() returns has skipped = true,
\* which is also the skipped output run() sets; the run ends failed after
\* that return only when the append to the file of GITHUB_OUTPUT throws.
C1_SkipSpawnsNoBuildOrPush ==
  (entry = "run" /\ imageExists) =>
     /\ ValidRequest
     /\ pc \in {"probed", "done", "failed"}
     /\ ~Spawns(BuildAndPushCmds)
     /\ pc = "probed" => ENABLED docker_skip
     /\ pc \in {"done", "failed"} =>
          /\ result # NoResult
          /\ result.skipped = TRUE
          /\ <<"skipped", "true">> \in outputs
     /\ pc = "failed" => AppendThrows

C1_Witness ==
  entry = "run" /\ imageExists /\ pc = "done" /\ result # NoResult /\ result.skipped

\* C2: a run that ends Done returns image = image-name, tag = version and
\* href = registry-url/image-name:version; skipped is false when the probe
\* returned false (build and push succeeded) and true when it returned true,
\* the other three values being the same in both cases.
C2_ResultOfDoneRun ==
  (entry = "run" /\ pc = "done") =>
     result = [image |-> input.imageName, tag |-> input.version,
               href |-> RequestHref, skipped |-> imageExists]

C2_Witness ==
  /\ entry = "run" /\ pc = "done" /\ ~imageExists
  /\ Spawns({"build"}) /\ Spawns({"push"})
  /\ result # NoResult /\ result.skipped = FALSE /\ result.tag = "v2"

\* C3: when a required input (project-path, image-name, version,
\* registry-url, registry-username, registry-password) is empty, the run has
\* spawned no subprocess and is either not yet started or in the failure
\* state, with a failure message and no result.
C3_EmptyRequiredInputFailsBeforeAnySpawn ==
  (entry = "run" /\ ~ValidRequest) =>
     /\ calls = <<>>
     /\ pc \in {"start", "failed"}
     /\ pc = "start" => ENABLED run
     /\ pc = "failed" => failure # "" /\ result = NoResult /\ outputs = {}

C3_Witness ==
  /\ entry = "run" /\ pc = "failed" /\ calls = <<>>
  /\ input.registryPassword = ""
  /\ input.projectPath # <<>> /\ input.imageName # "" /\ input.version # ""
  /\ input.registryUrl # "" /\ input.registryUsername # ""

\* C4: the registry password is not an element of the argument list of any
\* subprocess of the run; the login subprocess gets it on standard input and
\* no other subprocess gets anything on standard input.
C4_PasswordNeverInArgv ==
  entry = "run" =>
    \A i \in 1..Len(calls) :
      /\ input.registryPassword \notin Range(calls[i].argv)
      /\ Cmd(calls[i]) = "login" => calls[i].stdin = input.registryPassword
      /\ Cmd(calls[i]) # "login" => calls[i].stdin = ""

C4_Witness ==
  /\ entry = "run" /\ pc = "done"
  /\ \E i \in 1..Len(calls) :
       Cmd(calls[i]) = "login" /\ calls[i].stdin = "s3cret"
  /\ Spawns({"build"}) /\ Spawns({"push"})

\* C5: in a run that follows a run which ended Done with skipped = false,
\* once the manifest query has been executed without error the probe has
\* returned true, no build or push subprocess is spawned, and the run ends
\* with skipped = true.
ProbeExecuted ==
  \E i \in 1..Len(calls) : Cmd(calls[i]) = "manifest" /\ calls[i].outcome = "ok"

PreviousRunPushed ==
  /\ runNo >= 2
  /\ history[runNo - 1].end = "done"
  /\ history[runNo - 1].result.skipped = FALSE

C5_SecondRunSkips ==
  (entry = "run" /\ PreviousRunPushed /\ ProbeExecuted) =>
     /\ imageExists
     /\ ~Spawns(BuildAndPushCmds)
     /\ pc \in {"probed", "done"}
     /\ pc = "done" => result.skipped = TRUE

C5_Witness ==
  /\ entry = "run" /\ PreviousRunPushed /\ ProbeExecuted
  /\ pc = "done" /\ result.skipped = TRUE

\* C6: when the probe has returned, what it returned is true exactly when
\* the manifest query on registry-url/image-name:version exited with code 0
\* (false for a non-zero exit and for an execution error), and no outcome of
\* the query fails the run: from the probe the run always goes on to the
\* decision of docker(), with no failure message.
ProbeCall == calls[Len(calls)]

C6_ProbeReturned ==
  pc = "probed" =>
     /\ ProbeCall.argv = <<"docker", "manifest", "inspect", RequestHref>>
     /\ imageExists = (ProbeCall.outcome # "spawnError" /\ ProbeCall.exitCode = 0)
     /\ ProbeCall.outcome \in {"nonzero", "spawnError"} => ~imageExists
     /\ failure = ""

C6_ProbeTrueIffExitZeroAndNeverRaises ==
  /\ []C6_ProbeReturned
  /\ [][pc = "probe" => pc' = "probed" /\ failure' = ""]_vars

C6_Witness ==
  pc = "probed" /\ ProbeCall.outcome = "spawnError" /\ ~imageExists

\* C7: in a run whose probe returned false and whose resolved Dockerfile path
\* does not exist, the builder spawns no subprocess (no pull, no build), no
\* tag or push follows, and the run is in the failure state with the
\* Dockerfile-not-found diagnostic.
ResolvedDockerfile ==
  IF link.build = "build.ts"
  THEN Cwd \o input.projectPath \o input.dockerfileName
  ELSE Cwd \o input.dockerfileName

PastProbe ==
  pc \notin {"start", "engine", "login", "probe", "probed"} /\ Len(calls) >= 3

C7_MissingDockerfileFailsWithoutSpawn ==
  (entry = "run" /\ PastProbe /\ ~imageExists /\ ResolvedDockerfile \notin fs) =>
     /\ pc = "failed"
     /\ ~Spawns(BuildAndPushCmds)
     /\ failure = "Action failed: Docker push failed: Failed to build: "
                    \o "Error: Dockerfile not found at: "
                    \o JoinSegs(IF link.build = "build.ts"
                                THEN input.projectPath \o input.dockerfileName
                                ELSE ResolvedDockerfile)

C7_Witness ==
  /\ entry = "run" /\ PastProbe /\ ~imageExists /\ ResolvedDockerfile \notin fs
  /\ pc = "failed" /\ link.build = "build.ts"

\* C8: in a run with pull-latest true whose pull of :latest is rejected
\* (non-zero exit or spawn error), the failure is logged as a warning naming
\* the pulled reference, the build invocation is made after the pull once
\* build has gone on, and the pull does not fail the run: the run is failed
\* only by a build, tag or push subprocess rejected after it, so that it can
\* still end Done with skipped = false.
C8_FailedPullDoesNotFailTheRun ==
  (entry = "run" /\ input.pullLatest) =>
    \A i \in 1..Len(calls) :
      (Cmd(calls[i]) = "pull" /\ calls[i].outcome # "ok") =>
        /\ \E k \in 1..Len(log) :
             /\ log[k].level = "warning"
             /\ log[k].msg = "Failed to pull " \o calls[i].argv[3] \o ": "
                               \o ExecErrorText(calls[i].outcome)
        /\ pc \in {"done", "failed"} =>
             \E j \in (i + 1)..Len(calls) : Cmd(calls[j]) \in {"build", "buildx"}
        /\ pc = "failed" =>
             \E j \in (i + 1)..Len(calls) :
               /\ Cmd(calls[j]) \in {"build", "buildx", "tag", "push"}
               /\ calls[j].outcome # "ok"

\* C9: in a run, a pull of registry-url/image-name:latest (of the request)
\* immediately precedes the build invocation if and only if the pull-latest
\* input is true: each pull is of that reference, with pull-latest false no
\* pull is spawned, and with pull-latest true the build invocation follows a
\* pull.
RequestLatest == input.registryUrl \o "/" \o input.imageName \o ":latest"

C9_PullIffPullLatestInput ==
  entry = "run" =>
    /\ ~input.pullLatest => ~Spawns({"pull"})
    /\ \A i \in 1..Len(calls) :
         /\ Cmd(calls[i]) = "pull" => calls[i].argv = <<"docker", "pull", RequestLatest>>
         /\ (Cmd(calls[i]) \in {"build", "buildx"} /\ input.pullLatest) =>
              i > 1 /\ calls[i - 1].argv = <<"docker", "pull", RequestLatest>>

\* C10: the tokens between the build context and --push in the build
\* invocation of build (part_003) are the whitespace-delimited tokens of the
\* args parameter, in order; no token of the argument list is the empty
\* string.
RECURSIVE WsTokensFrom(_, _)
WsTokensFrom(cs, cur) ==
  IF cs = <<>> THEN (IF cur = <<>> THEN <<>> ELSE <<cur>>)
  ELSE IF cs[1] = " "
       THEN (IF cur = <<>> THEN <<>> ELSE <<cur>>) \o WsTokensFrom(Tail(cs), <<>>)
       ELSE WsTokensFrom(Tail(cs), Append(cur, cs[1]))

\* The maximal runs of non-whitespace characters of a string.
WsTokens(cs) == WsTokensFrom(cs, <<>>)

C10_ExtraTokensAreTheTokensOfArgs ==
  entry = "build" =>
    \A i \in 1..Len(calls) :
      Cmd(calls[i]) = "buildx" =>
        LET a == calls[i].argv
            given == BuildxParams(frame).args.chars
        IN /\ SubSeq(a, 1, 8) = <<"docker", "buildx", "build", "-t",
                                  "reg.example/app:v1", "-f", a[7], "app">>
           /\ a[Len(a)] = "--push"
           /\ SubSeq(a, 9, Len(a) - 1) = Strs(WsTokens(given))
           /\ "" \notin Range(a)

\* C11: the environment of the build invocation of build (part_003) is
\* process.env merged with the variables of the env input: every variable of
\* either is set, and a variable of both has the value of the env input.
Merge(base, over) ==
  [n \in DOMAIN base \cup DOMAIN over |->
     IF n \in DOMAIN over THEN over[n] ELSE base[n]]

C11_BuildEnvIsProcessEnvOverriddenByEnvInput ==
  entry = "build" =>
    \A i \in 1..Len(calls) :
      Cmd(calls[i]) = "buildx" => calls[i].env = Merge(processEnv, envInput)

\* The text of the skipped output for the value of the probe.
SkippedText == IF imageExists THEN "true" ELSE "false"

StepFailed ==
  \E i \in 1..Len(calls) :
    /\ Cmd(calls[i]) \in {"--version", "login", "build", "buildx", "tag", "push"}
    /\ calls[i].outcome # "ok"

\* build threw before its build invocation: no Dockerfile, or the TypeError.
BuildThrewBeforeSpawn ==
  /\ Len(calls) >= 3
  /\ ~imageExists
  /\ ~Spawns({"build", "buildx", "tag", "push"})
  /\ ResolvedDockerfile \notin fs \/ link.build = "part_003"

\* C13: a run is marked failed, with a message, exactly when validation
\* failed or the engine check, the login, the build or the push failed (a
\* rejected subprocess of one of them, or a build that threw before its
\* invocation); every other run that ends reports success, with a result
\* and no failure.
C13_FailureState ==
  entry = "run" =>
    /\ pc \in {"start", "engine", "login", "probe", "probed", "buildx", "push",
               "pushVersion", "tagLatest", "pushLatest", "done", "failed"}
    /\ pc = "failed" <=> failure # ""
    /\ pc = "failed" => ~ValidRequest \/ StepFailed \/ BuildThrewBeforeSpawn
    /\ ~ValidRequest /\ pc # "start" => pc = "failed"
    /\ StepFailed => pc = "failed"
    /\ pc = "done" => ValidRequest /\ ~StepFailed /\ result # NoResult

\* C14: when the engine check is rejected the run fails with the message of
\* the engine check, and no login, probe, pull, build, tag or push follows:
\* the engine check is the only subprocess of the run.
C14_EngineFailureStopsRun ==
  entry = "run" /\ Len(calls) >= 1 =>
    /\ calls[1].argv = <<"docker", "--version">>
    /\ calls[1].outcome # "ok" =>
         /\ pc = "failed"
         /\ Len(calls) = 1
         /\ result = NoResult
         /\ failure = "Action failed: Docker push failed: Docker is not available. Please ensure Docker is installed and running. Error: "
                        \o ExecErrorText(calls[1].outcome)

C14_Witness ==
  /\ entry = "run"
  /\ pc = "failed"
  /\ Len(calls) = 1
  /\ calls[1].outcome = "spawnError"

\* C15: when the login is rejected the run fails with the message of the
\* login, and no probe, pull, build, tag or push follows: the login is the
\* last subprocess of the run.
C15_LoginFailureStopsRun ==
  entry = "run" /\ Len(calls) >= 2 =>
    /\ Cmd(calls[2]) = "login"
    /\ calls[2].outcome # "ok" =>
         /\ pc = "failed"
         /\ Len(calls) = 2
         /\ result = NoResult
         /\ failure = "Action failed: Docker push failed: Failed to login to registry: "
                        \o ExecErrorText(calls[2].outcome)

C15_Witness ==
  /\ entry = "run"
  /\ pc = "failed"
  /\ Len(calls) = 2
  /\ calls[2].outcome = "nonzero"

\* C16: when the build invocation exits non-zero or cannot be spawned the
\* run fails with the message of the build, and no tag or push follows: the
\* build invocation is the last subprocess of the run.
C16_BuildFailureStopsRun ==
  entry = "run" =>
    \A i \in 1..Len(calls) :
      Cmd(calls[i]) \in {"build", "buildx"} /\ calls[i].outcome # "ok" =>
        /\ pc = "failed"
        /\ i = Len(calls)
        /\ ~Spawns({"tag", "push"})
        /\ result = NoResult
        /\ failure = "Action failed: Docker push failed: Failed to build: "
                       \o ExecErrorText(calls[i].outcome)

C16_Witness ==
  /\ entry = "run"
  /\ pc = "failed"
  /\ Len(calls) >= 1
  /\ Cmd(calls[Len(calls)]) = "build"
  /\ calls[Len(calls)].outcome = "spawnError"

\* The local reference of the request, written out.
RequestLocal == input.imageName \o ":" \o input.version

\* The last argument of a tag or push subprocess: the reference it targets.
Target(c) == c.argv[Len(c.argv)]

\* The four subprocesses of a push that publishes :latest, all successful.
PublishedBoth ==
  /\ Len(calls) >= 4
  /\ LET n == Len(calls)
     IN  /\ calls[n - 3].argv = <<"docker", "tag", RequestLocal, RequestHref>>
         /\ calls[n - 2].argv = <<"docker", "push", RequestHref>>
         /\ calls[n - 1].argv = <<"docker", "tag", RequestLocal, RequestLatest>>
         /\ calls[n].argv = <<"docker", "push", RequestLatest>>
         /\ \A k \in (n - 3)..n : calls[k].outcome = "ok"

\* C17: with the push that also publishes :latest (push.ts), a run that
\* built ends with a result only after the tag and the push of the versioned
\* reference and the tag and the push of the :latest reference all succeeded
\* and both references are in the registry; a rejected tag or push of :latest
\* fails the run, even though the versioned reference was pushed.
C17_LatestIsFatalAndRequired ==
  entry = "run" /\ link.push = "push.ts" =>
    /\ pc = "done" /\ ~imageExists =>
         /\ PublishedBoth
         /\ {RequestHref, RequestLatest} \subseteq registry
         /\ result.skipped = FALSE
    /\ \A i \in 1..Len(calls) :
         /\ Cmd(calls[i]) \in {"tag", "push"}
         /\ Target(calls[i]) = RequestLatest
         /\ calls[i].outcome # "ok"
         => /\ pc = "failed"
            /\ i = Len(calls)
            /\ result = NoResult
            /\ failure # ""
            /\ RequestHref \in registry

C17_Witness ==
  /\ entry = "run"
  /\ link.push = "push.ts"
  /\ pc = "failed"
  /\ Len(calls) >= 1
  /\ calls[Len(calls)].argv = <<"docker", "push", RequestLatest>>
  /\ calls[Len(calls)].outcome = "nonzero"
  /\ RequestHref \in registry

\* C18: when a tag or push subprocess of push is rejected, the failure
\* message of the run names the reference that subprocess targeted.
C18_PushErrorNamesFailedReference ==
  /\ entry = "run"
  /\ pc = "failed"
  /\ Len(calls) >= 1
  /\ Cmd(calls[Len(calls)]) \in {"tag", "push"}
  => failure = "Action failed: Docker push failed: Failed to push "
                 \o Target(calls[Len(calls)]) \o ": "
                 \o ExecErrorText(calls[Len(calls)].outcome)

\* The place of a subprocess in the order of the steps.
StepRank(c) ==
  CASE Cmd(c) = "--version" -> 1
    [] Cmd(c) = "login" -> 2
    [] Cmd(c) = "manifest" -> 3
    [] Cmd(c) = "pull" -> 4
    [] Cmd(c) \in {"build", "buildx"} -> 5
    [] Cmd(c) = "tag" /\ Target(c) = RequestHref -> 6
    [] Cmd(c) = "push" /\ Target(c) = RequestHref -> 7
    [] Cmd(c) = "tag" /\ Target(c) = RequestLatest -> 8
    [] Cmd(c) = "push" /\ Target(c) = RequestLatest -> 9
    [] OTHER -> 0

\* C20: the subprocesses of a run are spawned one after the other in the
\* order engine check, login, probe, pull of :latest, build, tag and push:
\* the first three are always the engine check, the login and the probe, a
\* subprocess is spawned only after the one before it ended, successfully
\* unless that one was the probe or the pull, and the probe, the pull, the
\* build and every tag and push come after a successful login.
C20_StepsInOrder ==
  entry = "run" =>
    \A i \in 1..Len(calls) :
      /\ StepRank(calls[i]) # 0
      /\ i <= 3 => StepRank(calls[i]) = i
      /\ i > 1 =>
           /\ StepRank(calls[i - 1]) < StepRank(calls[i])
           /\ \/ calls[i - 1].outcome = "ok"
              \/ Cmd(calls[i - 1]) \in {"manifest", "pull"}
      /\ StepRank(calls[i]) >= 6 => StepRank(calls[i - 1]) = StepRank(calls[i]) - 1
      /\ StepRank(calls[i]) >= 3 =>
           Cmd(calls[2]) = "login" /\ calls[2].outcome = "ok"

C20_Witness ==
  /\ entry = "run"
  /\ pc = "done"
  /\ Len(calls) = 8
  /\ Cmd(calls[4]) = "build"
  /\ Cmd(calls[8]) = "push"
  /\ Target(calls[8]) = RequestLatest

\* C21: the Dockerfile path build (part_003) checks and gives the build
\* invocation after -f is the Dockerfile name joined to the project path
\* (relative, or resolved against the working directory), the build context
\* is the project path, and no build invocation is spawned when there is no
\* file at that path.
C21_DockerfileResolvedAgainstProjectPath ==
  entry = "build" =>
    LET projectPath == frame[1].segs
        dockerfileName == frame[2].segs
        expected == projectPath \o dockerfileName
    IN \A i \in 1..Len(calls) :
         Cmd(calls[i]) = "buildx" =>
           /\ calls[i].argv[6] = "-f"
           /\ calls[i].argv[7] \in {JoinSegs(expected), JoinSegs(Cwd \o expected)}
           /\ calls[i].argv[8] = JoinSegs(projectPath)
           /\ (Cwd \o expected) \in fs

\* C22: when the manifest query of the probe cannot be executed, the log has
\* a warning-level entry for it, and that entry is not the entry of a
\* completed probe that found the image absent.
C22_ProbeErrorIsAWarning ==
  entry = "run" =>
    \A i \in 1..Len(calls) :
      Cmd(calls[i]) = "manifest" /\ calls[i].outcome = "spawnError" =>
        \E k \in 1..Len(log) :
          /\ log[k].level = "warning"
          /\ log[k].msg = "Error checking image existence: "
                            \o ExecErrorText("spawnError")
          /\ log[k].msg # "Image " \o RequestHref \o " does not exist"

\* The prefix of the failure message for the phase of a subprocess.
PhasePrefix(c) ==
  CASE Cmd(c) = "--version" ->
         "Docker is not available. Please ensure Docker is installed and running. Error: "
    [] Cmd(c) = "login" -> "Failed to login to registry: "
    [] Cmd(c) \in {"build", "buildx"} -> "Failed to build: "
    [] Cmd(c) \in {"tag", "push"} -> "Failed to push " \o RequestHref \o ": "

\* The text of the error exec.exec rejects with.
UnderlyingText(o) ==
  CASE o = "nonzero" -> "Error: The process 'docker' failed with exit code 1"
    [] o = "spawnError" ->
         "Error: There was an error when attempting to execute the process 'docker'"

FatalCmds == {"--version", "login", "build", "buildx", "tag", "push"}

\* C23: when a subprocess of the engine check, the login, the build or the
\* push is rejected, the failure message of the run is the wrappers of run()
\* and docker(), then the prefix of the phase that failed, then the text of
\* the underlying error unchanged; the prefixes of the four phases differ.
C23_FailureNamesPhaseAndKeepsText ==
  /\ entry = "run"
  /\ pc = "failed"
  /\ Len(calls) >= 1
  /\ Cmd(calls[Len(calls)]) \in FatalCmds
  /\ calls[Len(calls)].outcome # "ok"
  => /\ failure = "Action failed: Docker push failed: "
                    \o PhasePrefix(calls[Len(calls)])
                    \o UnderlyingText(calls[Len(calls)].outcome)
     /\ Cardinality({PhasePrefix([argv |-> <<"docker", cmd>>]) :
                       cmd \in {"--version", "login", "build", "push"}}) = 4

C23_Witness ==
  /\ entry = "run"
  /\ pc = "failed"
  /\ Len(calls) >= 1
  /\ calls[Len(calls)].argv = <<"docker", "push", RequestHref>>
  /\ calls[Len(calls)].outcome = "spawnError"
  /\ failure # ""

\* C26: nothing is retried: in one run no two subprocesses have the same
\* command line, the engine check, the login, the probe, the pull and the
\* build are each spawned at most once, and a tag and a push at most once for
\* each reference, whatever the outcomes.
C26_NothingRetried ==
  entry = "run" =>
    \A i, j \in 1..Len(calls) :
      i # j =>
        /\ calls[i].argv # calls[j].argv
        /\ Cmd(calls[i]) = Cmd(calls[j]) =>
             /\ Cmd(calls[i]) \in {"tag", "push"}
             /\ Target(calls[i]) # Target(calls[j])
        /\ {Cmd(calls[i]), Cmd(calls[j])} # {"build", "buildx"}

C26_Witness ==
  /\ entry = "run"
  /\ pc = "failed"
  /\ Len(calls) = 4
  /\ Cmd(calls[3]) = "manifest"
  /\ calls[3].outcome = "spawnError"
  /\ Cmd(calls[4]) = "pull"
  /\ calls[4].outcome = "nonzero"

Terminal == pc \in {"done", "failed"}

\* The steps of a run up to the return of the skip branch.
OnSkipPath ==
  pc \in {"start", "engine", "login", "probe"} \/ (pc = "probed" /\ imageExists)

\* C27: a run that takes the skip branch spawns the engine check, the login
\* and the probe only, and none of its steps, from its start to its end
\* after the return of the skip branch (Done, or failed when the append to
\* the file of GITHUB_OUTPUT throws), changes the registry or the local
\* images.
C27_SkipLeavesRegistryAndCacheUntouched ==
  /\ [](entry = "run" /\ Terminal /\ imageExists =>
          /\ result # NoResult
          /\ result.skipped
          /\ Len(calls) = 3
          /\ Cmd(calls[3]) = "manifest")
  /\ [][entry = "run" /\ OnSkipPath =>
          /\ registry' = registry
          /\ localImages' = localImages
          /\ pc = "probed" => Terminal' /\ result'.skipped]_vars

C27_Witness ==
  /\ entry = "run"
  /\ pc = "done"
  /\ imageExists
  /\ runNo = 2
  /\ localImages # {}
  /\ registry # {}

\* C28: a run has a result record exactly when it ended Done: a run that has
\* not ended or that ended Failed has none and has set no output, and a run
\* that ended Failed has a failure message.
C28_ResultExactlyWhenDone ==
  entry = "run" =>
    /\ pc = "done" <=> result # NoResult
    /\ pc = "failed" => result = NoResult /\ outputs = {} /\ failure # ""
    /\ pc = "done" => failure = ""

\* C30: within one run the reference the probe queries, the reference the
\* build and push steps push to the registry and the href of the result are
\* the one string registry-url/image-name:version of the request: the probe
\* queries it, the first push targets it (a later push targets its :latest
\* alias), a build invocation that pushes is tagged with it, the run adds no
\* other reference to the registry, and the result carries it.
C30_OneReferenceThroughoutTheRun ==
  entry = "run" =>
    /\ \A i \in 1..Len(calls) :
         /\ Cmd(calls[i]) = "manifest" =>
              calls[i].argv = <<"docker", "manifest", "inspect", RequestHref>>
         /\ Cmd(calls[i]) = "buildx" => calls[i].argv[5] = RequestHref
         /\ Cmd(calls[i]) = "push" =>
              /\ Target(calls[i]) \in {RequestHref, RequestLatest}
              /\ Cmd(calls[i - 2]) # "push" => Target(calls[i]) = RequestHref
    /\ registry \subseteq {RequestHref, RequestLatest}
    /\ pc = "done" =>
         /\ result.href = RequestHref
         /\ <<"href", RequestHref>> \in outputs
         /\ RequestHref \in registry \/ imageExists

C30_Witness ==
  /\ entry = "run"
  /\ pc = "done"
  /\ ~imageExists
  /\ input.args # <<>>
  /\ calls[3].argv = <<"docker", "manifest", "inspect", RequestHref>>
  /\ \E i \in 1..Len(calls) : calls[i].argv = <<"docker", "push", RequestHref>>
  /\ result.href = RequestHref

\* A source holds a non-empty string.
NonEmpty(v) ==
  /\ v # [type |-> "undefined"]
  /\ v \notin {[type |-> "string", text |-> ""], [type |-> "string", segs |-> <<>>],
              [type |-> "string", chars |-> <<>>]}

\* The value the claim gives input n: the parameter, else the variable,
\* else the default d.
Chosen(n, d) ==
  IF NonEmpty(raw.param[n]) THEN raw.param[n]
  ELSE IF NonEmpty(raw.env[n]) THEN raw.env[n]
  ELSE d

RequiredInputs ==
  {"projectPath", "imageName", "version", "registryUrl", "registryUsername",
   "registryPassword"}

\* C24: once run() has read the inputs, every input has the value of its
\* step parameter when that is non-empty, else the value of its INPUT_*
\* variable when that is set and non-empty, else its default (Dockerfile
\* for dockerfile-name, empty for args and for the required inputs); and a
\* run with a required input left empty by both sources fails validation
\* and goes no further.
C24_ParameterThenEnvironmentThenDefault ==
  entry = "run" /\ pc # "input" =>
    /\ input.projectPath = Chosen("projectPath", [segs |-> <<>>]).segs
    /\ input.imageName = Chosen("imageName", [text |-> ""]).text
    /\ input.dockerfileName
         = Chosen("dockerfileName", [segs |-> <<"Dockerfile">>]).segs
    /\ input.version = Chosen("version", [text |-> ""]).text
    /\ input.registryUrl = Chosen("registryUrl", [text |-> ""]).text
    /\ input.registryUsername = Chosen("registryUsername", [text |-> ""]).text
    /\ input.registryPassword = Chosen("registryPassword", [text |-> ""]).text
    /\ input.args = Chosen("args", [chars |-> <<>>]).chars
    /\ pc # "start" =>
         (pc = "failed" <=>
            \E n \in RequiredInputs :
              ~NonEmpty(raw.param[n]) /\ ~NonEmpty(raw.env[n]))

C24_Witness ==
  /\ entry = "run"
  /\ pc = "engine"
  /\ raw.param.imageName.text = ""
  /\ raw.param.projectPath.segs # <<>>
  /\ raw.env.projectPath # Undefined
  /\ raw.env.projectPath.segs # <<>>
  /\ input.imageName = "IMAGE=env"
  /\ input.projectPath = raw.param.projectPath.segs
  /\ input.dockerfileName = <<"Dockerfile">>

\* The spellings of true in any mix of upper and lower case.
TrueSpellings ==
  {<<t, r, u, e>> : t \in {"t", "T"}, r \in {"r", "R"}, u \in {"u", "U"},
                    e \in {"e", "E"}}

\* C25: once run() has read the inputs, pull-latest is true exactly when
\* the string it resolved to (the parameter, else the variable, else 'true')
\* is a spelling of true in any mix of cases; so it is true when both
\* sources are absent or empty, and false for every other string.
C25_PullLatestIsCaseInsensitiveTrue ==
  entry = "run" /\ pc # "input" =>
    /\ input.pullLatest
         <=> Chosen("pullLatest", [chars |-> <<"t", "r", "u", "e">>]).chars
               \in TrueSpellings
    /\ ~NonEmpty(raw.param.pullLatest) /\ ~NonEmpty(raw.env.pullLatest)
         => input.pullLatest

C25_Witness ==
  /\ entry = "run"
  /\ pc # "input"
  /\ raw.param.pullLatest.chars = <<>>
  /\ raw.env.pullLatest # Undefined
  /\ raw.env.pullLatest.chars = <<"T", "r", "u", "e">>
  /\ input.pullLatest

\* The probe of a run completed and did not find the reference.
ProbedAbsent(cs) ==
  \E i \in 1..Len(cs) :
    /\ cs[i].argv = <<"docker", "manifest", "inspect", RequestHref>>
    /\ cs[i].outcome = "ok"
    /\ cs[i].exitCode # 0

BuiltOk(cs) ==
  \E i \in 1..Len(cs) : Cmd(cs[i]) = "build" /\ cs[i].outcome = "ok"

PushedOk(cs) ==
  \E i \in 1..Len(cs) :
    cs[i].argv = <<"docker", "push", RequestHref>> /\ cs[i].outcome = "ok"

\* A step of the run that is looked at.
RunStep ==
  \/ run
  \/ ensureDockerEngine
  \/ registryLogin
  \/ checkImageExists
  \/ docker_skip
  \/ build
  \/ push_tag
  \/ push_push
  \/ push_tagLatest
  \/ push_pushLatest

\* This step is a successful push by the run that is looked at.
PushSucceeds ==
  /\ other' = other
  /\ Len(calls') = Len(calls) + 1
  /\ Cmd(calls'[Len(calls')]) = "push"
  /\ calls'[Len(calls')].outcome = "ok"

C29_RaceState ==
  entry = "run" /\ other.pc # "absent" =>
    /\ pc \notin {"done", "failed"} => ENABLED RunStep
    /\ imageExists => RequestHref \in registry
    /\ pc = "done" /\ ~imageExists =>
         /\ BuiltOk(calls) /\ PushedOk(calls)
         /\ RequestHref \in DOMAIN images
         /\ images[RequestHref].runner \in {1, 2}
    /\ pc = "done" /\ other.pc = "done" /\ ~imageExists /\ ~other.imageExists =>
         /\ BuiltOk(other.calls) /\ PushedOk(other.calls)
         /\ ~result.skipped /\ ~other.result.skipped

\* C29: two runs with the same inputs on two runners are not coordinated:
\* a run that has not ended can always take its next step, whatever the
\* other run is doing; a run skips only when the reference is in the
\* registry, so two runs that both probed before either pushed both build
\* and push and both end Done with skipped = false; and every successful
\* push stores the image of the run that pushes under the reference,
\* whatever was there, so the registry ends with the image pushed last.
C29_ConcurrentRunsAreNotCoordinated ==
  /\ []C29_RaceState
  /\ [][entry = "run" /\ PushSucceeds =>
          images'[Target(calls'[Len(calls')])] = [runner |-> Me, run |-> runNo]]_vars

C29_Witness ==
  /\ entry = "run"
  /\ pc = "done"
  /\ other.pc = "done"
  /\ ~result.skipped
  /\ ~other.result.skipped
  /\ ProbedAbsent(calls) /\ ProbedAbsent(other.calls)
  /\ PushedOk(calls) /\ PushedOk(other.calls)
  /\ Me = 1
  /\ images[RequestHref] = [runner |-> 2, run |-> 1]

\* C31: with push of push.ts, starting from a registry without the image
\* and written by these runs only, whenever a run of a sequence of runs with
\* the same inputs ends Done, the registry holds both
\* registry-url/image-name:version and registry-url/image-name:latest.
C31_DoneImpliesVersionAndLatestPublished ==
  entry = "run" /\ link.push = "push.ts" /\ pc = "done" =>
    {RequestHref, RequestLatest} \subseteq registry

\* The probe of this run, once it has been spawned.
RunProbe == calls[3]

\* C32: the probe returns true only when the manifest query ran, exited 0
\* and the registry held registry-url/image-name:version at that moment; a
\* run returns skipped = true only after such a probe, so a run whose probe
\* could not be executed or exited non-zero is never skipped, whether or not
\* the registry holds the image.
C32_SkippedOnlyIfRegistryHeldImage ==
  /\ [][entry = "run" /\ pc = "probe" /\ imageExists' =>
          /\ RequestHref \in registry
          /\ calls'[Len(calls')].outcome = "ok"
          /\ calls'[Len(calls')].exitCode = 0]_vars
  /\ [](entry = "run" /\ Len(calls) >= 3 =>
          /\ imageExists => RequestHref \in registry
          /\ RunProbe.outcome # "ok" \/ RunProbe.exitCode # 0 =>
               /\ ~imageExists
               /\ pc = "done" => ~result.skipped)
  /\ [](entry = "run" /\ pc = "done" /\ result.skipped =>
          /\ imageExists
          /\ RunProbe.outcome = "ok"
          /\ RunProbe.exitCode = 0
          /\ RequestHref \in registry)

C32_Witness ==
  /\ entry = "run"
  /\ pc = "done"
  /\ Len(calls) >= 3
  /\ RunProbe.outcome = "spawnError"
  /\ runNo = 1
  /\ RequestHref \in DOMAIN images
  /\ ~result.skipped
  /\ Spawns({"build"})

====
